---- MODULE Spec2Model ----
(***************************************************************************)
(* PageRank (pagerank.py): the transition model, the sampling estimator    *)
(* and the iterative estimator.                                            *)
(*                                                                         *)
(* Pages are the integers 1..N in dictionary (insertion) order; a corpus   *)
(* is the sequence of the pages' link sets, so Len(corpus) = len(corpus).  *)
(* A damping factor is a number of hundredths (85 is 0.85).                *)
(* transition_model computes with exact fractions <<num, den>>; iterate    *)
(* computes in fixed point, Scale units to 1.0, every division rounding    *)
(* down.                                                                   *)
(***************************************************************************)
EXTENDS Integers, Sequences, FiniteSets, TLC

VARIABLES corpus, damping_factor, pc,
          page, dist,
          n, results, sequence, i, ranks,
          heap, stack, temp, ret, first, err

vars == <<corpus, damping_factor, pc, page, dist, n, results, sequence, i,
          ranks, heap, stack, temp, ret, first, err>>

\* ------------------------------------------------------------------ bounds
MaxPages == 3
SamplePages == 2
RingPages == 5
MaxSamples == 3
MaxDepth == 60

\* ------------------------------------------------------- program constants
DAMPING == 85

\* fixed point: Scale units to 1.0
Scale == 10 ^ 7

\* the convergence threshold 0.001 of iterate
Threshold == Scale \div 1000

\* --------------------------------------------------------------- fractions
RECURSIVE GCD(_, _)
GCD(a, b) == IF b = 0 THEN a ELSE GCD(b, a % b)

LCM(a, b) == (a \div GCD(a, b)) * b

Abs(x) == IF x < 0 THEN -x ELSE x

\* the fraction a/b in lowest terms, b > 0
Frac(a, b) ==
    LET g == GCD(Abs(a), b)
    IN  IF a = 0 THEN <<0, 1>> ELSE <<a \div g, b \div g>>

FAdd(x, y) ==
    LET l == LCM(x[2], y[2])
    IN  Frac(x[1] * (l \div x[2]) + y[1] * (l \div y[2]), l)

FLe(x, y) ==
    LET l == LCM(x[2], y[2])
    IN  x[1] * (l \div x[2]) <= y[1] * (l \div y[2])

FNeg(x) == <<-x[1], x[2]>>

FAbs(x) == <<Abs(x[1]), x[2]>>

RECURSIVE FSum(_)
FSum(s) == IF s = <<>> THEN <<0, 1>> ELSE FAdd(Head(s), FSum(Tail(s)))

\* round(x, 4) of a non-negative fraction: the nearest multiple of 1/10000,
\* a tie going to the even multiple
Round4(x) ==
    LET q == (x[1] * 10000) \div x[2]
        r == (x[1] * 10000) % x[2]
        k == IF 2 * r > x[2] THEN q + 1
             ELSE IF 2 * r = x[2] THEN q + (q % 2)
             ELSE q
    IN  Frac(k, 10000)

\* ------------------------------------------------------------------ graphs
Pages(c) == 1..Len(c)

\* crawl (lines 41-48) returns a corpus in which each page links to pages of
\* the corpus other than itself
WellFormed(c) == \A p \in Pages(c) : c[p] \subseteq Pages(c) \ {p}

\* the first m link sets of every such corpus of N pages
RECURSIVE CorporaTo(_, _)
CorporaTo(N, m) ==
    IF m = 0 THEN {<<>>}
    ELSE {Append(c, links) : c \in CorporaTo(N, m - 1),
                             links \in SUBSET ((1..N) \ {m})}

AllCorpora(N) == CorporaTo(N, N)

\* the corpora of N pages in which page p links only to the next two pages
\* round the ring (all corpora when N <= 3)
RECURSIVE RingTo(_, _)
RingTo(N, m) ==
    IF m = 0 THEN {<<>>}
    ELSE {Append(c, links) : c \in RingTo(N, m - 1),
                             links \in SUBSET ({(m % N) + 1, ((m + 1) % N) + 1} \ {m})}

RingCorpora(N) == RingTo(N, N)

Dampings == {0, 50, 85, 100}

\* ------------------------------------------------------- transition_model
transition_model_uniform(c, p, d) ==
    LET links == c[p]
        N == Len(c)
    IN  IF Cardinality(links) = 0
        THEN [k \in 1..N |-> Frac(1, N)]
        ELSE [k \in 1..N |->
                IF k \in links
                THEN FAdd(Frac(d, 100 * Cardinality(links)), Frac(100 - d, 100 * N))
                ELSE Round4(Frac(100 - d, 100 * N))]

transition_model(c, p, d) ==
    LET links == c[p]
        N == Len(c)
    IN  IF Cardinality(links) = 0
        THEN [k \in 1..N |-> Frac(d, 100 * N)]
        ELSE [k \in 1..N |->
                IF k \in links
                THEN FAdd(Frac(d, 100 * Cardinality(links)), Frac(100 - d, 100 * N))
                ELSE Round4(Frac(100 - d, 100 * N))]

\* the variables a call does not use
NoTM == page = 0 /\ dist = <<>>

NoSample == n = 0 /\ results = <<>> /\ sequence = <<>> /\ i = 0 /\ ranks = <<>>

NoIter == heap = <<>> /\ stack = <<>> /\ temp = 0 /\ ret = 0 /\ first = 0

InitTM ==
    /\ corpus \in UNION {AllCorpora(N) : N \in 1..MaxPages}
    /\ damping_factor \in Dampings
    /\ page \in Pages(corpus)
    /\ pc = "transition_model"
    /\ dist = <<>>
    /\ err = "none"
    /\ NoSample /\ NoIter

Transition ==
    /\ pc = "transition_model"
    /\ dist' = transition_model(corpus, page, damping_factor)
    /\ pc' = "returned"
    /\ UNCHANGED <<corpus, damping_factor, page, n, results, sequence, i, ranks,
                   heap, stack, temp, ret, first, err>>

NextTM == Transition

SpecTM == InitTM /\ [][NextTM]_vars

\* -------------------------------------------------------- sample_pagerank
iterVars == <<heap, stack, temp, ret, first>>

tmVars == <<page, dist>>

Visit(res, p) == [k \in DOMAIN res |-> IF k = p THEN res[k] + 1 ELSE res[k]]

\* random.choices(population, weights) never draws a page of weight zero
Positive(seq) == {k \in DOMAIN seq : seq[k][1] > 0}

InitSample ==
    /\ corpus \in UNION {AllCorpora(N) : N \in 0..SamplePages}
    /\ damping_factor \in Dampings
    /\ n \in (0 - MaxSamples)..MaxSamples
    /\ pc = "sample_pagerank"
    /\ results = <<>> /\ sequence = <<>> /\ i = 0 /\ ranks = <<>>
    /\ err = "none"
    /\ NoTM /\ NoIter

\* lines 90-96 on an empty corpus: random.choice of an empty list
SampleEmpty ==
    /\ pc = "sample_pagerank"
    /\ Len(corpus) = 0
    /\ pc' = "raised"
    /\ err' = "IndexError"
    /\ UNCHANGED <<corpus, damping_factor, n, results, sequence, i, ranks>>
    /\ UNCHANGED tmVars /\ UNCHANGED iterVars

\* lines 90-102
SampleStart ==
    /\ pc = "sample_pagerank"
    /\ Len(corpus) > 0
    /\ \E random_page \in Pages(corpus) :
        /\ results' = Visit([k \in Pages(corpus) |-> 0], random_page)
        /\ sequence' = transition_model(corpus, random_page, damping_factor)
    /\ i' = 0
    /\ pc' = "walk"
    /\ UNCHANGED <<corpus, damping_factor, n, ranks, err>>
    /\ UNCHANGED tmVars /\ UNCHANGED iterVars

\* lines 104-111, one pass of the loop
SampleStep ==
    /\ pc = "walk"
    /\ i < n - 1
    /\ Positive(sequence) # {}
    /\ \E next_page \in Positive(sequence) :
        /\ results' = Visit(results, next_page)
        /\ sequence' = transition_model(corpus, next_page, damping_factor)
    /\ i' = i + 1
    /\ UNCHANGED <<corpus, damping_factor, n, ranks, pc, err>>
    /\ UNCHANGED tmVars /\ UNCHANGED iterVars

\* line 106 when every weight is zero: random.choices raises ValueError
\* (Python 3.9 and later)
SampleStepZeroRaise ==
    /\ pc = "walk"
    /\ i < n - 1
    /\ Positive(sequence) = {}
    /\ pc' = "raised"
    /\ err' = "ValueError"
    /\ UNCHANGED <<corpus, damping_factor, n, results, sequence, i, ranks>>
    /\ UNCHANGED tmVars /\ UNCHANGED iterVars

\* line 106 when every weight is zero: random.choices returns the last page
\* (Python 3.6 to 3.8, bisect stops at hi = len - 1)
SampleStepZeroLast ==
    /\ pc = "walk"
    /\ i < n - 1
    /\ Positive(sequence) = {}
    /\ LET next_page == Len(corpus)
       IN  /\ results' = Visit(results, next_page)
           /\ sequence' = transition_model(corpus, next_page, damping_factor)
    /\ i' = i + 1
    /\ UNCHANGED <<corpus, damping_factor, n, ranks, pc, err>>
    /\ UNCHANGED tmVars /\ UNCHANGED iterVars

\* lines 113-114 with n = 0: v / n
SampleDivZero ==
    /\ pc = "walk"
    /\ ~(i < n - 1)
    /\ n = 0
    /\ pc' = "raised"
    /\ err' = "ZeroDivisionError"
    /\ UNCHANGED <<corpus, damping_factor, n, results, sequence, i, ranks>>
    /\ UNCHANGED tmVars /\ UNCHANGED iterVars

\* v / n, n # 0
Quotient(v, m) == IF m > 0 THEN Frac(v, m) ELSE Frac(0 - v, 0 - m)

\* lines 113-116
SampleFinish ==
    /\ pc = "walk"
    /\ ~(i < n - 1)
    /\ n # 0
    /\ ranks' = [k \in DOMAIN results |-> Quotient(results[k], n)]
    /\ pc' = "returned"
    /\ UNCHANGED <<corpus, damping_factor, n, results, sequence, i, err>>
    /\ UNCHANGED tmVars /\ UNCHANGED iterVars

NextSample ==
    \/ SampleEmpty
    \/ SampleStart
    \/ SampleStep
    \/ SampleStepZeroRaise
    \/ SampleStepZeroLast
    \/ SampleDivZero
    \/ SampleFinish

SpecSample == InitSample /\ [][NextSample]_vars

\* ------------------------------------------------------- iterate_pagerank
\* A dict is a sequence of ranks, one per page, in fixed point. heap holds
\* every dict created, in creation order; a name (values, temp, the returned
\* value) holds the index of a dict in heap. stack holds, per active call of
\* iterate, the dict its parameter values names.

RECURSIVE SumTo(_, _)
SumTo(f, m) == IF m = 0 THEN 0 ELSE f[m] + SumTo(f, m - 1)

Sum(f) == SumTo(f, Len(f))

\* lines 148-152: what page key adds to the summation of page k
Contribution_noDangling(c, values, key, k) ==
    IF k \in c[key] THEN values[key] \div Cardinality(c[key]) ELSE 0

Contribution(c, values, key, k) ==
    IF Cardinality(c[key]) = 0
    THEN values[key] \div Len(c)
    ELSE IF k \in c[key] THEN values[key] \div Cardinality(c[key]) ELSE 0

\* the update of one page with damping d hundredths
Rank(c, values, k, d) ==
    ((100 - d) * Scale) \div (100 * Len(c))
        + (d * Sum([key \in 1..Len(c) |-> Contribution(c, values, key, k)])) \div 100

\* lines 143-154: the dict temp that iterate fills from values
iterate_temp(c, values) == [k \in DOMAIN values |-> Rank(c, values, k, DAMPING)]

\* lines 156-160
Diff(prev, current) == [j \in DOMAIN prev |-> Abs(prev[j] - current[j])]

\* max() of an empty list raises ValueError
MaxRaises_default(diff) == FALSE

MaxRaises(diff) == Len(diff) = 0

Max(diff) ==
    IF Len(diff) = 0 THEN 0
    ELSE CHOOSE m \in {diff[j] : j \in DOMAIN diff} : \A j \in DOMAIN diff : diff[j] <= m

\* line 162
Recurse_exact(diff) == Max(diff) > 0

Recurse_loose(diff) == Max(diff) > 10 * Threshold

Recurse(diff) == Max(diff) > Threshold

\* line 165: the dict `return temp` returns from the call whose parameter is
\* the dict values; temp is the module-level name
Returned_local(values) == values + 1

Returned(values) == temp

IterDampings == {50, 85}

InitIterOn(graphs, dampings) ==
    /\ corpus \in graphs
    /\ damping_factor \in dampings
    /\ pc = "iterate_pagerank"
    /\ heap = <<>> /\ stack = <<>> /\ temp = 0 /\ ret = 0 /\ first = 0
    /\ err = "none"
    /\ NoTM /\ NoSample

InitIter == InitIterOn(UNION {AllCorpora(N) : N \in 0..MaxPages}, IterDampings)

\* main's call iterate_pagerank(corpus, DAMPING) on a ring corpus
InitRing == InitIterOn(UNION {RingCorpora(N) : N \in 0..RingPages}, {DAMPING})

sampleVars == <<n, results, sequence, i, ranks>>

\* lines 130-135: the initial dict out, and the call iterate(corpus, out)
IterCall ==
    /\ pc = "iterate_pagerank"
    /\ heap' = <<[k \in Pages(corpus) |-> Scale \div Len(corpus)]>>
    /\ stack' = <<1>>
    /\ pc' = "iterating"
    /\ UNCHANGED <<corpus, damping_factor, temp, ret, first, err>>
    /\ UNCHANGED tmVars /\ UNCHANGED sampleVars

\* the dict of the running call's parameter values
Values == heap[stack[Len(stack)]]

\* lines 140-162 when max(diff) raises
IterateStepRaise ==
    /\ pc = "iterating"
    /\ MaxRaises(Diff(Values, iterate_temp(corpus, Values)))
    /\ heap' = Append(heap, iterate_temp(corpus, Values))
    /\ temp' = Len(heap) + 1
    /\ pc' = "raised"
    /\ err' = "ValueError"
    /\ UNCHANGED <<corpus, damping_factor, stack, ret, first>>
    /\ UNCHANGED tmVars /\ UNCHANGED sampleVars

\* lines 140-163: one update, then the recursive call iterate(corpus, temp)
IterateStepRecurse ==
    /\ pc = "iterating"
    /\ ~MaxRaises(Diff(Values, iterate_temp(corpus, Values)))
    /\ Recurse(Diff(Values, iterate_temp(corpus, Values)))
    /\ Len(stack) < MaxDepth
    /\ heap' = Append(heap, iterate_temp(corpus, Values))
    /\ temp' = Len(heap) + 1
    /\ stack' = Append(stack, Len(heap) + 1)
    /\ UNCHANGED <<corpus, damping_factor, pc, ret, first, err>>
    /\ UNCHANGED tmVars /\ UNCHANGED sampleVars

\* lines 140-162: one update, no recursive call
IterateStepStop ==
    /\ pc = "iterating"
    /\ ~MaxRaises(Diff(Values, iterate_temp(corpus, Values)))
    /\ ~Recurse(Diff(Values, iterate_temp(corpus, Values)))
    /\ heap' = Append(heap, iterate_temp(corpus, Values))
    /\ temp' = Len(heap) + 1
    /\ pc' = "returning"
    /\ UNCHANGED <<corpus, damping_factor, stack, ret, first, err>>
    /\ UNCHANGED tmVars /\ UNCHANGED sampleVars

\* line 165: the running call returns; an outer call of iterate drops the
\* value (line 163) and returns in its turn, the outermost hands it to the
\* caller of iterate_pagerank (line 135)
IterateReturn ==
    /\ pc = "returning"
    /\ stack' = SubSeq(stack, 1, Len(stack) - 1)
    /\ IF Len(stack) = 1
       THEN ret' = Returned(stack[Len(stack)]) /\ pc' = "converged"
       ELSE UNCHANGED <<ret, pc>>
    /\ UNCHANGED <<corpus, damping_factor, heap, temp, first, err>>
    /\ UNCHANGED tmVars /\ UNCHANGED sampleVars

\* the caller runs iterate(corpus, ranks) on the dict it was returned
Rerun ==
    /\ pc = "converged"
    /\ first = 0
    /\ first' = ret
    /\ stack' = <<ret>>
    /\ pc' = "iterating"
    /\ UNCHANGED <<corpus, damping_factor, heap, temp, ret, err>>
    /\ UNCHANGED tmVars /\ UNCHANGED sampleVars

Iterating == IterCall \/ IterateStepRaise \/ IterateStepRecurse \/ IterateStepStop
                \/ IterateReturn

NextIter == Iterating \/ Rerun

Spec == InitIter /\ [][NextIter]_vars

InitFair == InitIterOn(UNION {RingCorpora(N) : N \in 0..MaxPages}, IterDampings)

\* iterate runs on: nothing suspends it
FairSpec == InitFair /\ [][NextIter]_vars /\ WF_vars(Iterating)

SpecRing == InitRing /\ [][NextIter]_vars

SpecBoth == (InitSample \/ InitIter) /\ [][NextSample \/ NextIter]_vars

\* ------------------------------------------------------------------ claims
One == <<1, 1>>

Within(x, y, tol) == FLe(FAbs(FAdd(x, FNeg(y))), tol)

Dangling(c) == {p \in Pages(c) : c[p] = {}}

\* C1: the distribution transition_model returns has a key for every page of
\* the corpus, no negative probability, and probabilities that sum to 1
\* within 1e-4.
C1_Distribution ==
    (pc = "returned" /\ page # 0) =>
        /\ DOMAIN dist = Pages(corpus)
        /\ \A k \in DOMAIN dist : dist[k][1] >= 0
        /\ Within(FSum(dist), One, <<1, 10000>>)

C2_DampingArgument ==
    \A j \in 2..Len(heap) :
        heap[j] = [k \in DOMAIN heap[j - 1] |->
                      Rank(corpus, heap[j - 1], k, damping_factor)]

\* C3: with n >= 1 on a non-empty corpus the walk of sample_pagerank does not
\* fail, the visit counts sum to the number of pages drawn so far and to n at
\* the end, and the returned ranks are count/n, non-negative, and sum to 1.
C3_Walk ==
    (n >= 1 /\ Len(corpus) > 0) =>
        /\ pc # "raised"
        /\ pc \in {"walk", "returned"} =>
              /\ DOMAIN results = Pages(corpus)
              /\ Sum(results) = i + 1
        /\ pc = "returned" =>
              /\ Sum(results) = n
              /\ DOMAIN ranks = Pages(corpus)
              /\ \A k \in DOMAIN ranks :
                    /\ ranks[k][1] * n = results[k] * ranks[k][2]
                    /\ ranks[k][1] >= 0
              /\ FSum(ranks) = One

\* C5: sample_pagerank called with n < 1 fails and returns no rank vector.
C5_InvalidSampleCount ==
    (pc # "iterate_pagerank" /\ n < 1 /\ page = 0 /\ heap = <<>>) =>
        (pc # "returned" /\ ranks = <<>>)

\* C4: the initial vector, every intermediate vector and the returned vector
\* of iterate_pagerank on a non-empty corpus have one entry per page, no
\* negative entry, and entries that sum to 1 within 1e-4.
C4_RankVectors ==
    Len(corpus) > 0 =>
        \A j \in 1..Len(heap) :
            /\ DOMAIN heap[j] = Pages(corpus)
            /\ \A k \in DOMAIN heap[j] : heap[j][k] >= 0
            /\ Abs(Sum(heap[j]) - Scale) <= Scale \div 10000

C4_Witness ==
    /\ pc = "converged"
    /\ first = 0
    /\ ret > 3
    /\ Len(corpus) = 3
    /\ Dangling(corpus) # {}
    /\ Dangling(corpus) # Pages(corpus)

\* C6: on the empty corpus both estimators fail: every step taken leads to
\* the failure, and no rank vector, empty or otherwise, is ever returned.
C6_NoResult ==
    Len(corpus) = 0 =>
        /\ pc \in {"sample_pagerank", "iterate_pagerank", "iterating", "raised"}
        /\ pc = "raised" => err \in {"IndexError", "ValueError"}
        /\ ranks = <<>>
        /\ ret = 0

C6_Fails == Len(corpus) = 0 => (pc' = "raised" \/ pc = "iterate_pagerank")

C7_Converges ==
    (pc = "iterate_pagerank" /\ Len(corpus) > 0) ~>
        (/\ pc = "converged"
         /\ first = 0
         /\ ret > 1
         /\ Max(Diff(heap[ret - 1], heap[ret])) <= Threshold)

C7_Witness ==
    /\ pc = "converged"
    /\ first = 0
    /\ ret > 10
    /\ Dangling(corpus) # {}
    /\ damping_factor = 50

\* the change of the first update of the re-run
RerunDelta == Max(Diff(heap[first], heap[first + 1]))

\* C8 as stated: the first update of iterate re-run on its own output
\* changes no page by more than 0.001.
C8_Idempotent == (first # 0 /\ Len(heap) > first) => RerunDelta <= Threshold

\* C8 amended: the first update of iterate re-run on its own output changes
\* no page by more than N times 0.001, N the number of pages.
C8_RerunBounded ==
    (first # 0 /\ Len(heap) > first) => RerunDelta <= Len(corpus) * Threshold

C8_Witness ==
    /\ first # 0
    /\ Len(heap) > first
    /\ RerunDelta > Threshold
    /\ Len(stack) = 2

\* C10: iterate recurses exactly while delta > 0.001, iterate_pagerank returns
\* the dict of the last update made, and no step changes a dict made before.
C10_LastVector ==
    (pc = "converged" /\ first = 0) =>
        /\ ret = Len(heap)
        /\ ret > 1
        /\ Max(Diff(heap[ret - 1], heap[ret])) <= Threshold
        /\ \A j \in 2..(ret - 1) : Max(Diff(heap[j - 1], heap[j])) > Threshold

C10_NoAliasing ==
    /\ Len(heap') >= Len(heap)
    /\ \A j \in 1..Len(heap) : heap'[j] = heap[j]

C10_Returned == []C10_LastVector /\ [][C10_NoAliasing]_vars

C10_Witness ==
    /\ pc = "converged"
    /\ first = 0
    /\ ret > 3
    /\ temp = ret
    /\ heap[ret] # heap[2]

====
